---- MODULE Spec2Model ----
(***************************************************************************)
(* A model of piltextbox/textbox/formatting/formatparser.py: flat_parse    *)
(* and format_parse, which split a text on single spaces into FWord        *)
(* objects and (format_parse) cull the format codes '<b>', '</b>', '<i>'   *)
(* and '</i>' from the two ends of every word.                             *)
(*                                                                         *)
(* A Python str is a sequence of one-character strings.                    *)
(***************************************************************************)
EXTENDS Integers, Sequences, FiniteSets, TLC

\* The longest input is the concatenation of MaxPieces pieces.
MaxPieces == 4

----------------------------------------------------------------------------
(* The format codes, and the str methods the parser uses.                  *)

B_ON == <<"<", "b", ">">>
B_OFF == <<"<", "/", "b", ">">>
I_ON == <<"<", "i", ">">>
I_OFF == <<"<", "/", "i", ">">>

format_codes == <<B_ON, B_OFF, I_ON, I_OFF>>

\* s.startswith(p) for one str p
startswith(s, p) ==
    /\ Len(s) >= Len(p)
    /\ SubSeq(s, 1, Len(p)) = p

\* A slip: `p in s` where s.endswith(p) was meant
endswith_in(s, p) ==
    \E k \in 1..(Len(s) - Len(p) + 1) : SubSeq(s, k, k + Len(p) - 1) = p

\* s.endswith(p) for one str p
endswith(s, p) ==
    /\ Len(s) >= Len(p)
    /\ SubSeq(s, Len(s) - Len(p) + 1, Len(s)) = p

\* s.startswith(codes) for a tuple of str
startswith_codes(s, codes) == \E k \in 1..Len(codes) : startswith(s, codes[k])

\* s.endswith(codes) for a tuple of str
endswith_codes(s, codes) == \E k \in 1..Len(codes) : endswith(s, codes[k])

\* A slip: the slice starts one character early
cut_front_early(s, p) == SubSeq(s, Len(p), Len(s))

\* s[len(p):]
cut_front(s, p) == SubSeq(s, Len(p) + 1, Len(s))

\* s[:-len(p)]
cut_back(s, p) == SubSeq(s, 1, Len(s) - Len(p))

\* A slip: text.split(), which drops the empty pieces
RECURSIVE split_collapse(_)
split_collapse(text) ==
    IF \A k \in 1..Len(text) : text[k] # " "
    THEN IF text = <<>> THEN <<>> ELSE <<text>>
    ELSE LET k == CHOOSE k \in 1..Len(text) :
                      /\ text[k] = " "
                      /\ \A j \in 1..(k - 1) : text[j] # " "
         IN  (IF k = 1 THEN <<>> ELSE <<SubSeq(text, 1, k - 1)>>)
                 \o split_collapse(SubSeq(text, k + 1, Len(text)))

\* text.split(' '): every single space separates two pieces, empty pieces
\* are kept, and a text without a space is one piece (also the empty text).
RECURSIVE split(_)
split(text) ==
    IF \A k \in 1..Len(text) : text[k] # " "
    THEN <<text>>
    ELSE LET k == CHOOSE k \in 1..Len(text) :
                      /\ text[k] = " "
                      /\ \A j \in 1..(k - 1) : text[j] # " "
         IN  <<SubSeq(text, 1, k - 1)>> \o split(SubSeq(text, k + 1, Len(text)))

\* FWord.__init__ with the default space=True
FWord(txt_, bold_, ital_) ==
    [txt |-> txt_, bold |-> bold_, ital |-> ital_, space |-> TRUE]

----------------------------------------------------------------------------
(* flat_parse                                                              *)

RECURSIVE flat_words(_, _)
flat_words(acc, words) ==
    IF words = <<>>
    THEN acc
    ELSE flat_words(Append(acc, FWord(Head(words), FALSE, FALSE)), Tail(words))

flat_parse(text_) == flat_words(<<>>, split(text_))

----------------------------------------------------------------------------
(* The body of format_parse's loop over the words.                         *)

\* One `if txt.startswith(code): <attr> = val; txt = txt[len(code):]`
lead_if(st, code, attr, val) ==
    IF startswith(st.txt, code)
    THEN [st EXCEPT ![attr] = val, !.txt = cut_front(st.txt, code)]
    ELSE st

\* One pass of the first `while True` after its break test: the four ifs in
\* the order of the code, each seeing the text the former left.
lead_pass(st) ==
    lead_if(lead_if(lead_if(lead_if(st,
        B_ON, "bold", TRUE), B_OFF, "bold", FALSE),
        I_ON, "ital", TRUE), I_OFF, "ital", FALSE)

\* A slip: <list>.insert(0, val) where append was meant
trail_if_insert(st, code, attr, val) ==
    IF endswith(st.txt, code)
    THEN [st EXCEPT ![attr] = <<val>> \o st[attr], !.txt = cut_back(st.txt, code)]
    ELSE st

\* One `if txt.endswith(code): <list>.append(val); txt = txt[:-len(code)]`
trail_if(st, code, attr, val) ==
    IF endswith(st.txt, code)
    THEN [st EXCEPT ![attr] = Append(st[attr], val), !.txt = cut_back(st.txt, code)]
    ELSE st

\* One pass of the second `while True` after its break test.
trail_pass(st) ==
    trail_if(trail_if(trail_if(trail_if(st,
        B_ON, "all_bold", TRUE), B_OFF, "all_bold", FALSE),
        I_ON, "all_ital", TRUE), I_OFF, "all_ital", FALSE)

\* A slip: the length test is left out
emit_always(fw, txt_, bold_, ital_, discard) ==
    IF discard
    THEN Append(fw, FWord(txt_, FALSE, FALSE))
    ELSE Append(fw, FWord(txt_, bold_, ital_))

\* `if len(txt) > 0:` and the FWord it appends
emit(fw, txt_, bold_, ital_, discard) ==
    IF Len(txt_) > 0
    THEN IF discard
         THEN Append(fw, FWord(txt_, FALSE, FALSE))
         ELSE Append(fw, FWord(txt_, bold_, ital_))
    ELSE fw

\* A slip: the fallback value is not appended
fallback_none(all_, cur) == all_

\* all_bold.append(bold), all_ital.append(ital)
fallback(all_, cur) == Append(all_, cur)

\* all_bold[0], all_ital[0]: Python raises IndexError on an empty list
can_index0(all_) == Len(all_) > 0
index0(all_) == all_[1]

\* The first `while True`, run to its break.
RECURSIVE lead_loop(_)
lead_loop(st) ==
    IF ~startswith_codes(st.txt, format_codes)
    THEN st
    ELSE lead_loop(lead_pass(st))

\* The second `while True`, run to its break.
RECURSIVE trail_loop(_)
trail_loop(st) ==
    IF ~endswith_codes(st.txt, format_codes)
    THEN st
    ELSE trail_loop(trail_pass(st))

\* One iteration of `for word in raw_words`, on the running bold, ital and
\* fwords in acc.
word_body(acc, word, discard) ==
    LET l  == lead_loop([txt |-> word, bold |-> acc.bold, ital |-> acc.ital])
        t  == trail_loop([txt |-> l.txt, all_bold |-> <<>>, all_ital |-> <<>>])
        ab == fallback(t.all_bold, l.bold)
        ai == fallback(t.all_ital, l.ital)
    IN  [bold   |-> index0(ab),
         ital   |-> index0(ai),
         fwords |-> emit(acc.fwords, t.txt, l.bold, l.ital, discard)]

RECURSIVE for_words(_, _, _)
for_words(acc, words, discard) ==
    IF words = <<>>
    THEN acc
    ELSE for_words(word_body(acc, Head(words), discard), Tail(words), discard)

\* format_parse(text, discard_formatting) as a function of its arguments
format_parse(text_, discard) ==
    for_words([bold |-> FALSE, ital |-> FALSE, fwords |-> <<>>],
              split(text_), discard).fwords

----------------------------------------------------------------------------
(* The inputs: every text that is the concatenation of at most MaxPieces   *)
(* pieces, a piece being a format code, a space, a letter or a stray '<'.  *)

Pieces == {B_ON, B_OFF, I_ON, I_OFF, <<" ">>, <<"a">>, <<"<">>}

RECURSIVE concat(_)
concat(ps) == IF ps = <<>> THEN <<>> ELSE Head(ps) \o concat(Tail(ps))

Texts == {concat(ps) : ps \in UNION {[1..n -> Pieces] : n \in 0..MaxPieces}}

----------------------------------------------------------------------------
(* One call of flat_parse or of format_parse, the latter statement by      *)
(* statement.                                                              *)

VARIABLES
    fn,                  \* the function called
    text,                \* its argument text
    discard_formatting,  \* its argument discard_formatting
    pc,                  \* the statement the call is at
    raw_words,           \* text.split(' ')
    i,                   \* how many words the for loop has taken
    txt,                 \* the current word, as culled so far
    bold, ital,          \* the running formatting
    all_bold, all_ital,  \* the values of the codes culled from the end
    fwords               \* the list that is returned

vars == <<fn, text, discard_formatting, pc, raw_words, i, txt, bold, ital,
          all_bold, all_ital, fwords>>

\* `word` of the for loop
word == raw_words[i]

Init ==
    /\ fn \in {"flat_parse", "format_parse"}
    /\ text \in Texts
    /\ discard_formatting \in (IF fn = "format_parse" THEN BOOLEAN ELSE {FALSE})
    /\ pc = "call"
    /\ raw_words = <<>>
    /\ i = 0
    /\ txt = <<>>
    /\ bold = FALSE
    /\ ital = FALSE
    /\ all_bold = <<>>
    /\ all_ital = <<>>
    /\ fwords = <<>>

\* A slip: the running formatting starts out bold
Begin_bold ==
    /\ pc = "call"
    /\ fn = "format_parse"
    /\ bold' = TRUE
    /\ ital' = FALSE
    /\ raw_words' = split(text)
    /\ fwords' = <<>>
    /\ pc' = "for"
    /\ UNCHANGED <<fn, text, discard_formatting, i, txt, all_bold, all_ital>>

\* A slip: the FWord is built from the formatting resolved for the next word
Emit_resolved ==
    /\ pc = "emit"
    /\ fwords' = emit(fwords, txt, fallback(all_bold, bold)[1],
                      fallback(all_ital, ital)[1], discard_formatting)
    /\ pc' = "resolve"
    /\ UNCHANGED <<fn, text, discard_formatting, raw_words, i, txt, bold, ital,
                   all_bold, all_ital>>

\* A slip: discard_formatting is ignored
Emit_keep ==
    /\ pc = "emit"
    /\ fwords' = emit(fwords, txt, bold, ital, FALSE)
    /\ pc' = "resolve"
    /\ UNCHANGED <<fn, text, discard_formatting, raw_words, i, txt, bold, ital,
                   all_bold, all_ital>>

\* A slip: the last element of each list is taken, all_bold[-1]
Resolve_last ==
    /\ pc = "resolve"
    /\ all_bold' = fallback(all_bold, bold)
    /\ all_ital' = fallback(all_ital, ital)
    /\ bold' = all_bold'[Len(all_bold')]
    /\ ital' = all_ital'[Len(all_ital')]
    /\ pc' = "for"
    /\ UNCHANGED <<fn, text, discard_formatting, raw_words, i, txt, fwords>>

\* flat_parse(text), lines 44-49
FlatParse ==
    /\ pc = "call"
    /\ fn = "flat_parse"
    /\ raw_words' = split(text)
    /\ fwords' = flat_parse(text)
    /\ pc' = "done"
    /\ UNCHANGED <<fn, text, discard_formatting, i, txt, bold, ital,
                   all_bold, all_ital>>

\* format_parse, lines 60-63
Begin ==
    /\ pc = "call"
    /\ fn = "format_parse"
    /\ bold' = FALSE
    /\ ital' = FALSE
    /\ raw_words' = split(text)
    /\ fwords' = <<>>
    /\ pc' = "for"
    /\ UNCHANGED <<fn, text, discard_formatting, i, txt, all_bold, all_ital>>

\* lines 64-65: the loop takes the next word
ForWord ==
    /\ pc = "for"
    /\ i < Len(raw_words)
    /\ i' = i + 1
    /\ txt' = raw_words[i + 1]
    /\ pc' = "lead"
    /\ UNCHANGED <<fn, text, discard_formatting, raw_words, bold, ital,
                   all_bold, all_ital, fwords>>

\* line 124: the loop is exhausted
Return ==
    /\ pc = "for"
    /\ i = Len(raw_words)
    /\ pc' = "done"
    /\ UNCHANGED <<fn, text, discard_formatting, raw_words, i, txt, bold, ital,
                   all_bold, all_ital, fwords>>

\* lines 70-83: a pass of the first loop that does not break
LeadPass ==
    /\ pc = "lead"
    /\ startswith_codes(txt, format_codes)
    /\ LET st == lead_pass([txt |-> txt, bold |-> bold, ital |-> ital])
       IN  /\ txt' = st.txt
           /\ bold' = st.bold
           /\ ital' = st.ital
    /\ UNCHANGED <<fn, text, discard_formatting, pc, raw_words, i,
                   all_bold, all_ital, fwords>>

\* lines 70-71 and 88-89: the first loop breaks, the lists are created
LeadBreak ==
    /\ pc = "lead"
    /\ ~startswith_codes(txt, format_codes)
    /\ all_bold' = <<>>
    /\ all_ital' = <<>>
    /\ pc' = "trail"
    /\ UNCHANGED <<fn, text, discard_formatting, raw_words, i, txt, bold, ital,
                   fwords>>

\* lines 94-107: a pass of the second loop that does not break
TrailPass ==
    /\ pc = "trail"
    /\ endswith_codes(txt, format_codes)
    /\ LET st == trail_pass([txt |-> txt, all_bold |-> all_bold,
                             all_ital |-> all_ital])
       IN  /\ txt' = st.txt
           /\ all_bold' = st.all_bold
           /\ all_ital' = st.all_ital
    /\ UNCHANGED <<fn, text, discard_formatting, pc, raw_words, i, bold, ital,
                   fwords>>

\* lines 94-95: the second loop breaks
TrailBreak ==
    /\ pc = "trail"
    /\ ~endswith_codes(txt, format_codes)
    /\ pc' = "emit"
    /\ UNCHANGED <<fn, text, discard_formatting, raw_words, i, txt, bold, ital,
                   all_bold, all_ital, fwords>>

\* lines 110-114
Emit ==
    /\ pc = "emit"
    /\ fwords' = emit(fwords, txt, bold, ital, discard_formatting)
    /\ pc' = "resolve"
    /\ UNCHANGED <<fn, text, discard_formatting, raw_words, i, txt, bold, ital,
                   all_bold, all_ital>>

\* lines 117-122; indexing an empty list would end the call in IndexError
Resolve ==
    /\ pc = "resolve"
    /\ all_bold' = fallback(all_bold, bold)
    /\ all_ital' = fallback(all_ital, ital)
    /\ IF can_index0(all_bold') /\ can_index0(all_ital')
       THEN /\ bold' = index0(all_bold')
            /\ ital' = index0(all_ital')
            /\ pc' = "for"
       ELSE /\ pc' = "IndexError"
            /\ UNCHANGED <<bold, ital>>
    /\ UNCHANGED <<fn, text, discard_formatting, raw_words, i, txt, fwords>>

Next ==
    \/ FlatParse
    \/ Begin
    \/ ForWord
    \/ Return
    \/ LeadPass
    \/ LeadBreak
    \/ TrailPass
    \/ TrailBreak
    \/ Emit
    \/ Resolve

Spec == Init /\ [][Next]_vars

\* The call is sequential code: whenever a statement can run, it runs.
LiveSpec == Spec /\ WF_vars(Next)

\* The stepwise call returns what the function returns.
StepwiseAgrees ==
    (pc = "done" /\ fn = "format_parse") =>
        fwords = format_parse(text, discard_formatting)

----------------------------------------------------------------------------
(* What the properties speak of, defined on the words themselves and not   *)
(* through the parser's loops.                                             *)

Codes == {B_ON, B_OFF, I_ON, I_OFF}
BoldCodes == {B_ON, B_OFF}
ItalCodes == {I_ON, I_OFF}

\* The value a code stands for: true for '<b>' and '<i>'
On(m) == m \in {B_ON, I_ON}

IsPrefix(p, s) == Len(p) <= Len(s) /\ \A k \in 1..Len(p) : s[k] = p[k]
IsSuffix(p, s) ==
    Len(p) <= Len(s) /\ \A k \in 1..Len(p) : s[Len(s) - Len(p) + k] = p[k]

\* A code occurs in s at position k
CodeAt(s, k) == \E m \in Codes : IsPrefix(m, SubSeq(s, k, Len(s)))
HasCode(s) == \E k \in 1..Len(s) : CodeAt(s, k)

\* The maximal run of codes s starts with, left to right
RECURSIVE LeadingRun(_)
LeadingRun(s) ==
    IF \E m \in Codes : IsPrefix(m, s)
    THEN LET m == CHOOSE c \in Codes : IsPrefix(c, s)
         IN  <<m>> \o LeadingRun(SubSeq(s, Len(m) + 1, Len(s)))
    ELSE <<>>

\* The maximal run of codes s ends with, left to right
RECURSIVE TrailingRun(_)
TrailingRun(s) ==
    IF \E m \in Codes : IsSuffix(m, s)
    THEN LET m == CHOOSE c \in Codes : IsSuffix(c, s)
         IN  Append(TrailingRun(SubSeq(s, 1, Len(s) - Len(m))), m)
    ELSE <<>>

RECURSIVE RunLen(_)
RunLen(run) == IF run = <<>> THEN 0 ELSE Len(Head(run)) + RunLen(Tail(run))

\* A word without its leading run, and what remains of that without its
\* trailing run
Rest(w) == SubSeq(w, RunLen(LeadingRun(w)) + 1, Len(w))
Core(w) == SubSeq(Rest(w), 1, Len(Rest(w)) - RunLen(TrailingRun(Rest(w))))

\* The value of the rightmost code of a kind in a run, dflt if it has none
RECURSIVE LastValue(_, _, _)
LastValue(run, kind, dflt) ==
    IF run = <<>>
    THEN dflt
    ELSE IF run[Len(run)] \in kind
         THEN On(run[Len(run)])
         ELSE LastValue(SubSeq(run, 1, Len(run) - 1), kind, dflt)

\* A formatting state after the codes of a run, read left to right
AfterRun(st, run) ==
    [bold |-> LastValue(run, BoldCodes, st.bold),
     ital |-> LastValue(run, ItalCodes, st.ital)]

\* The running formatting after the first k words: only the leading run and
\* the trailing run of each word count
RECURSIVE RunState(_, _)
RunState(words, k) ==
    IF k = 0
    THEN [bold |-> FALSE, ital |-> FALSE]
    ELSE AfterRun(RunState(words, k - 1),
                  LeadingRun(words[k]) \o TrailingRun(Rest(words[k])))

TextsOf(fw) == [k \in 1..Len(fw) |-> fw[k].txt]
NonEmpty(ts) == SelectSeq(ts, LAMBDA t : t # <<>>)

\* ' '.join(ts)
RECURSIVE Join(_)
Join(ts) ==
    IF ts = <<>> THEN <<>>
    ELSE IF Len(ts) = 1 THEN ts[1]
    ELSE ts[1] \o <<" ">> \o Join(Tail(ts))

InFormat == fn = "format_parse"

----------------------------------------------------------------------------
\* C1: every token format_parse emits without discard_formatting has the
\* bold and ital of the state carried in from the preceding words as updated
\* by the word's own leading codes (the rightmost of a kind wins); the codes
\* culled from the end of the word do not touch it.
C1_TokenFormatting ==
    (InFormat /\ pc = "resolve" /\ ~discard_formatting /\ Len(txt) > 0) =>
        /\ Len(fwords) > 0
        /\ LET tok == fwords[Len(fwords)]
               own == AfterRun(RunState(raw_words, i - 1), LeadingRun(word))
           IN  /\ tok.txt = txt
               /\ tok.bold = own.bold
               /\ tok.ital = own.ital

\* '<b>a</b>': the token is bold although '</b>' was culled from its word
C1_Witness ==
    /\ InFormat /\ pc = "resolve" /\ ~discard_formatting /\ Len(txt) > 0
    /\ B_ON \in {LeadingRun(word)[k] : k \in 1..Len(LeadingRun(word))}
    /\ all_bold # <<>> /\ all_bold[1] = FALSE
    /\ fwords[Len(fwords)].bold = TRUE

\* C2: the bold carried to the next word is the value of the bold code
\* nearest the end of the word among the trailing codes culled from it, and
\* the bold left by the leading codes when no trailing bold code was culled;
\* the same for ital, independently.
C2_CarriedState ==
    [][(InFormat /\ pc = "resolve" /\ pc' = "for") =>
          LET run == TrailingRun(Rest(word))
          IN  /\ bold' = LastValue(run, BoldCodes, bold)
              /\ ital' = LastValue(run, ItalCodes, ital)]_vars

\* 'a</b><b>': two trailing bold codes that differ, the nearer one carried
C2_Witness ==
    /\ InFormat /\ pc = "for" /\ i > 0
    /\ Len(all_bold) >= 3
    /\ all_bold[1] # all_bold[2]
    /\ IsSuffix(B_ON, word)
    /\ bold = TRUE
    /\ all_ital = <<ital>>

\* C3: only the codes of the leading run of a word and of the trailing run
\* of what remains are culled; a code between other characters stays in the
\* token's text and changes the running formatting of no word.
C3_OnlyEdgeRuns ==
    InFormat =>
        /\ pc \in {"emit", "resolve"} => txt = Core(word)
        /\ (pc = "resolve" /\ Core(word) # <<>>) =>
               /\ Len(fwords) > 0
               /\ fwords[Len(fwords)].txt = Core(word)
        /\ (pc = "for" /\ i > 0) =>
               /\ bold = RunState(raw_words, i).bold
               /\ ital = RunState(raw_words, i).ital

\* 'a<b>a': the word keeps the code it has between its letters
C3_Witness ==
    /\ InFormat /\ pc = "for" /\ i > 0
    /\ HasCode(Core(word))
    /\ LeadingRun(word) = <<>> /\ TrailingRun(word) = <<>>
    /\ Len(fwords) > 0
    /\ fwords[Len(fwords)].txt = word
    /\ bold = RunState(raw_words, i - 1).bold

----------------------------------------------------------------------------
\* The code that occurs at position k of s
CodeOf(s, k) == CHOOSE m \in Codes : IsPrefix(m, SubSeq(s, k, Len(s)))

\* The codes that occur in s, left to right
RECURSIVE CodeSeq(_, _)
CodeSeq(s, k) ==
    IF k > Len(s) THEN <<>>
    ELSE (IF CodeAt(s, k) THEN <<CodeOf(s, k)>> ELSE <<>>) \o CodeSeq(s, k + 1)

\* The codes of a kind open and close in turn, and the last one closes
Alternates(cs, open, close) ==
    /\ Len(cs) % 2 = 0
    /\ \A k \in 1..Len(cs) : cs[k] = (IF k % 2 = 1 THEN open ELSE close)

Matched(s) ==
    /\ Alternates(SelectSeq(CodeSeq(s, 1), LAMBDA m : m \in BoldCodes), B_ON, B_OFF)
    /\ Alternates(SelectSeq(CodeSeq(s, 1), LAMBDA m : m \in ItalCodes), I_ON, I_OFF)

\* Every code in s touches a space or an edge of s
BoundaryCorrect(s) ==
    \A k \in 1..Len(s) :
        CodeAt(s, k) =>
            LET e == k + Len(CodeOf(s, k)) - 1
            IN  \/ k = 1
                \/ s[k - 1] = " "
                \/ e = Len(s)
                \/ s[e + 1] = " "

\* s with every occurrence of a code removed
RECURSIVE RemoveCodes(_)
RemoveCodes(s) ==
    IF s = <<>> THEN <<>>
    ELSE IF CodeAt(s, 1)
         THEN RemoveCodes(SubSeq(s, Len(CodeOf(s, 1)) + 1, Len(s)))
         ELSE <<s[1]>> \o RemoveCodes(Tail(s))

\* A space of s is kept when it is the last one of a run of spaces that has
\* another character before it and after it
Kept(s, k) ==
    \/ s[k] # " "
    \/ /\ \E j \in 1..(k - 1) : s[j] # " "
       /\ k < Len(s)
       /\ s[k + 1] # " "

RECURSIVE KeepFrom(_, _)
KeepFrom(s, k) ==
    IF k > Len(s) THEN <<>>
    ELSE (IF Kept(s, k) THEN <<s[k]>> ELSE <<>>) \o KeepFrom(s, k + 1)

\* s with every run of spaces collapsed to one space and without the spaces
\* at its two ends
Squeezed(s) == KeepFrom(s, 1)

NumSpaces(s) == Cardinality({k \in 1..Len(s) : s[k] = " "})

AllPlain(fw) == \A k \in 1..Len(fw) : ~fw[k].bold /\ ~fw[k].ital

\* C4 as stated: on a text without codes format_parse and flat_parse give
\* the same token texts, all tokens plain.
C4_Original ==
    (InFormat /\ pc = "done" /\ ~HasCode(text)) =>
        /\ TextsOf(fwords) = TextsOf(flat_parse(text))
        /\ AllPlain(fwords)

\* C4 as amended: on a text without codes the token texts of format_parse
\* are those of flat_parse without the empty ones, all tokens plain.
C4_FlatWithoutEmpty ==
    (InFormat /\ pc = "done" /\ ~HasCode(text)) =>
        /\ TextsOf(fwords) = NonEmpty(TextsOf(flat_parse(text)))
        /\ AllPlain(fwords)
        /\ AllPlain(flat_parse(text))

\* 'a  a': flat_parse has an empty token that format_parse has not
C4_Witness ==
    /\ InFormat /\ pc = "done" /\ ~HasCode(text)
    /\ Len(fwords) >= 2
    /\ Len(flat_parse(text)) > Len(fwords)

\* C5 as stated: for a text of matched, boundary-correct codes the token
\* texts joined with single spaces are the text without its codes.
C5_Original ==
    (InFormat /\ pc = "done" /\ BoundaryCorrect(text) /\ Matched(text)) =>
        Join(TextsOf(fwords)) = RemoveCodes(text)

\* C5 as amended: they are the text without its codes and with every run of
\* spaces collapsed to one space, the spaces at the two ends dropped.
C5_RoundTripSqueezed ==
    (InFormat /\ pc = "done" /\ BoundaryCorrect(text) /\ Matched(text)) =>
        Join(TextsOf(fwords)) = Squeezed(RemoveCodes(text))

\* ' <b>a</b>': codes are culled and the leading space is lost
C5_Witness ==
    /\ InFormat /\ pc = "done" /\ BoundaryCorrect(text) /\ Matched(text)
    /\ HasCode(text)
    /\ fwords # <<>>
    /\ Squeezed(RemoveCodes(text)) # RemoveCodes(text)

\* C6: with discard_formatting every token is plain, and the tokens are as
\* many, with the same texts in the same order, as without it.
C6_DiscardMode ==
    (InFormat /\ pc = "done" /\ discard_formatting) =>
        /\ AllPlain(fwords)
        /\ TextsOf(fwords) = TextsOf(format_parse(text, FALSE))
        /\ ~HasCode(text) => fwords = format_parse(text, FALSE)

\* '<b>a': the token is bold without discard_formatting and plain with it
C6_Witness ==
    /\ InFormat /\ pc = "done" /\ discard_formatting
    /\ fwords # <<>>
    /\ ~AllPlain(format_parse(text, FALSE))
    /\ \E k \in 1..Len(fwords) : Len(fwords[k].txt) < Len(raw_words[1])

\* C7: a token is emitted for a word exactly when the text left of it is
\* not empty, so no token has an empty text; a word of which nothing is left
\* emits no token, and its codes still update the running formatting.
C7_NoEmptyToken ==
    InFormat =>
        /\ \A k \in 1..Len(fwords) : fwords[k].txt # <<>>
        /\ pc \in {"for", "done"} =>
               Len(fwords) = Cardinality({k \in 1..i : Core(raw_words[k]) # <<>>})
        /\ (pc = "for" /\ i > 0 /\ Core(word) = <<>>) =>
               /\ bold = AfterRun(RunState(raw_words, i - 1), LeadingRun(word)).bold
               /\ ital = AfterRun(RunState(raw_words, i - 1), LeadingRun(word)).ital

\* '<b> a': the word '<b>' emits nothing, the token a is bold
C7_Witness ==
    /\ InFormat /\ pc = "done" /\ ~discard_formatting
    /\ Len(raw_words) >= 2
    /\ raw_words[1] = B_ON
    /\ Len(fwords) = 1
    /\ fwords[1].bold

\* C8: format_parse never fails and always returns: no list is indexed while
\* empty, every pass of the two loops that does not break shortens the text,
\* and the call reaches its return.
C8_AlwaysReturns ==
    /\ [](pc # "IndexError")
    /\ [][(InFormat /\ pc \in {"lead", "trail"} /\ pc' = pc) =>
             Len(txt') < Len(txt)]_vars
    /\ <>(pc = "done")

\* '</b> <i>': unmatched codes and no word content, and the call returned
C8_Witness ==
    /\ InFormat /\ pc = "done"
    /\ HasCode(text) /\ ~Matched(text)
    /\ Len(raw_words) >= 2
    /\ \A k \in 1..Len(raw_words) : raw_words[k] # <<>> /\ Core(raw_words[k]) = <<>>
    /\ fwords = <<>>

\* C9: flat_parse returns one token more than the text has spaces, each
\* plain and with space=True, and their texts joined with single spaces are
\* the text: no code is interpreted and no space collapsed.
C9_FlatParse ==
    (fn = "flat_parse" /\ pc = "done") =>
        /\ Len(fwords) = NumSpaces(text) + 1
        /\ \A k \in 1..Len(fwords) :
               ~fwords[k].bold /\ ~fwords[k].ital /\ fwords[k].space
        /\ Join(TextsOf(fwords)) = text

\* '<b>a  ': a code kept in a token's text, and empty tokens
C9_Witness ==
    /\ fn = "flat_parse" /\ pc = "done"
    /\ \E k \in 1..Len(fwords) : IsPrefix(B_ON, fwords[k].txt) /\ Len(fwords[k].txt) > 3
    /\ \E k \in 1..Len(fwords) : fwords[k].txt = <<>>
    /\ Len(fwords) >= 3

----------------------------------------------------------------------------
(* format_parse with one variable per kind in place of the two lists: the  *)
(* scan from the right assigns the variable on the removal of a code,      *)
(* either on every removal (overwrite) or on the first one of its kind.    *)

scan_if(st, code, attr, seen, overwrite) ==
    IF IsSuffix(code, st.txt)
    THEN [st EXCEPT !.txt = SubSeq(st.txt, 1, Len(st.txt) - Len(code)),
                    ![attr] = IF overwrite \/ ~st[seen] THEN On(code) ELSE st[attr],
                    ![seen] = TRUE]
    ELSE st

scan_pass(st, overwrite) ==
    scan_if(scan_if(scan_if(scan_if(st,
        B_ON, "bold", "seen_bold", overwrite), B_OFF, "bold", "seen_bold", overwrite),
        I_ON, "ital", "seen_ital", overwrite), I_OFF, "ital", "seen_ital", overwrite)

RECURSIVE scan_loop(_, _)
scan_loop(st, overwrite) ==
    IF ~\E m \in Codes : IsSuffix(m, st.txt)
    THEN st
    ELSE scan_loop(scan_pass(st, overwrite), overwrite)

single_word(acc, w, discard, overwrite) ==
    LET l == lead_loop([txt |-> w, bold |-> acc.bold, ital |-> acc.ital])
        t == scan_loop([txt |-> l.txt, bold |-> l.bold, ital |-> l.ital,
                        seen_bold |-> FALSE, seen_ital |-> FALSE], overwrite)
    IN  [bold   |-> t.bold,
         ital   |-> t.ital,
         fwords |-> emit(acc.fwords, t.txt, l.bold, l.ital, discard)]

\* The running formatting and the tokens after the first k words
RECURSIVE single_words(_, _, _, _)
single_words(words, k, discard, overwrite) ==
    IF k = 0
    THEN [bold |-> FALSE, ital |-> FALSE, fwords |-> <<>>]
    ELSE single_word(single_words(words, k - 1, discard, overwrite),
                     words[k], discard, overwrite)

\* C10 as stated: taking the first entry of the lists is the same as one
\* variable overwritten on every removal, so that the last code removed in
\* the scan from the right is carried to the next word.
C10_Original ==
    (InFormat /\ pc \in {"for", "done"}) =>
        LET alt == single_words(raw_words, i, discard_formatting, TRUE)
        IN  bold = alt.bold /\ ital = alt.ital /\ fwords = alt.fwords

\* C10 as amended: it is the same as one variable assigned on the first
\* removal of a code of its kind only, so that the first code removed in the
\* scan from the right, the one nearest the end of the word, is carried.
C10_FirstRemovedWins ==
    (InFormat /\ pc \in {"for", "done"}) =>
        LET alt == single_words(raw_words, i, discard_formatting, FALSE)
        IN  bold = alt.bold /\ ital = alt.ital /\ fwords = alt.fwords

\* 'a<b></b>': '</b>' is removed first and '<b>' last, and bold is false
C10_Witness ==
    /\ InFormat /\ pc = "for" /\ i > 0
    /\ all_bold = <<FALSE, TRUE, FALSE>>
    /\ bold = FALSE
    /\ fwords # <<>>

====
